---- MODULE Spec2Model ----
(***************************************************************************)
(* Model of src/main.py: the FastAPI application with the form endpoint    *)
(* POST /calculate_bee/ (schema BEEFormInput, handler calculate_bee) and   *)
(* GET /health.                                                            *)
(*                                                                         *)
(* Numbers.  The handler computes in Python floats, which are modelled as  *)
(* IEEE-754 doubles (mantissa and exponent, every operation rounded to     *)
(* nearest, ties to even).  The numbers a client writes and reads, the     *)
(* decimal text of the form fields and of the JSON response, are modelled  *)
(* as exact decimals                                                       *)
(*   [neg, dig, exp]  =  (-1)^neg * (dig as little-endian decimal digits)  *)
(*                        * 10^(-exp)                                      *)
(* in canonical form, so that equality of records is equality of numbers.  *)
(***************************************************************************)
EXTENDS Integers, Sequences, FiniteSets, TLC

VARIABLES req, pc, local, resp, health

vars == <<req, pc, local, resp, health>>

\* Number of request slots (requests that may be in flight together).
NumSlots == 2
\* Number of /health calls a behaviour may contain.
MaxHealth == 2

Slots == 1..NumSlots

-----------------------------------------------------------------------------
(* Natural numbers as little-endian sequences of decimal digits (the      *)
(* digits of a decimal text).                                              *)

RECURSIVE NatDig(_)
NatDig(n) == IF n = 0 THEN <<>> ELSE <<n % 10>> \o NatDig(n \div 10)

RECURSIVE Trim(_)
Trim(d) ==
    IF d = <<>> THEN <<>>
    ELSE IF d[Len(d)] = 0 THEN Trim(SubSeq(d, 1, Len(d) - 1))
    ELSE d

Zeros(n) == [i \in 1..n |-> 0]

-----------------------------------------------------------------------------
(* Decimal numbers: the text of a form field and of a JSON number.         *)

RECURSIVE StripLow(_, _)
StripLow(dig, exp) ==
    IF exp > 0 /\ dig # <<>> /\ Head(dig) = 0 THEN StripLow(Tail(dig), exp - 1)
    ELSE [dig |-> dig, exp |-> exp]

Canon(neg, dig, exp) ==
    LET t == Trim(dig)
        s == StripLow(t, exp)
    IN  IF t = <<>> THEN [neg |-> FALSE, dig |-> <<>>, exp |-> 0]
        ELSE [neg |-> neg, dig |-> s.dig, exp |-> s.exp]

\* The decimal literal m * 10^(-e), e.g. Dec(66473, 3) is 66.473.
Dec(m, e) == Canon(m < 0, NatDig(IF m < 0 THEN -m ELSE m), e)

-----------------------------------------------------------------------------
(* Natural numbers as little-endian sequences of limbs in base 2^15 (the   *)
(* mantissas of doubles and their exact products and sums).                *)

Limb == 2^15

RECURSIVE BNat(_)
BNat(n) == IF n = 0 THEN <<>> ELSE <<n % Limb>> \o BNat(n \div Limb)

RECURSIVE BInt(_)
BInt(a) == IF a = <<>> THEN 0 ELSE Head(a) + Limb * BInt(Tail(a))

RECURSIVE BAdd(_, _, _)
BAdd(a, b, c) ==
    IF a = <<>> /\ b = <<>> THEN BNat(c)
    ELSE LET x == IF a = <<>> THEN 0 ELSE Head(a)
             y == IF b = <<>> THEN 0 ELSE Head(b)
             t == x + y + c
         IN  <<t % Limb>> \o BAdd(IF a = <<>> THEN a ELSE Tail(a),
                                  IF b = <<>> THEN b ELSE Tail(b),
                                  t \div Limb)

\* a - b - c for a >= b + c; the result may end in zero limbs.
RECURSIVE BSubRaw(_, _, _)
BSubRaw(a, b, c) ==
    IF a = <<>> THEN <<>>
    ELSE LET y == IF b = <<>> THEN 0 ELSE Head(b)
             t == Head(a) - y - c
         IN  <<(t + Limb) % Limb>> \o BSubRaw(Tail(a),
                                             IF b = <<>> THEN b ELSE Tail(b),
                                             IF t < 0 THEN 1 ELSE 0)

BSub(a, b) == Trim(BSubRaw(a, b, 0))

RECURSIVE BMulSmall(_, _, _)
BMulSmall(a, k, c) ==
    IF a = <<>> THEN BNat(c)
    ELSE LET t == Head(a) * k + c
         IN  <<t % Limb>> \o BMulSmall(Tail(a), k, t \div Limb)

RECURSIVE BMul(_, _)
BMul(a, b) ==
    IF b = <<>> \/ a = <<>> THEN <<>>
    ELSE BAdd(BMulSmall(a, Head(b), 0), <<0>> \o BMul(a, Tail(b)), 0)

\* Quotient and remainder of a by d, for 0 < d <= 2^15.
RECURSIVE BDivRem(_, _)
BDivRem(a, d) ==
    IF a = <<>> THEN [q |-> <<>>, r |-> 0]
    ELSE LET hi  == BDivRem(Tail(a), d)
             cur == hi.r * Limb + Head(a)
         IN  [q |-> <<cur \div d>> \o hi.q, r |-> cur % d]

\* a < b, for trimmed a and b.
RECURSIVE BLess(_, _)
BLess(a, b) ==
    IF Len(a) # Len(b) THEN Len(a) < Len(b)
    ELSE IF a = <<>> THEN FALSE
    ELSE IF a[Len(a)] # b[Len(b)] THEN a[Len(a)] < b[Len(b)]
    ELSE BLess(SubSeq(a, 1, Len(a) - 1), SubSeq(b, 1, Len(b) - 1))

RECURSIVE IntBits(_)
IntBits(n) == IF n = 0 THEN 0 ELSE 1 + IntBits(n \div 2)

BitLen(a) == IF a = <<>> THEN 0 ELSE 15 * (Len(a) - 1) + IntBits(a[Len(a)])

\* a * 2^s
BShl(a, s) ==
    IF a = <<>> THEN <<>> ELSE Zeros(s \div 15) \o BMulSmall(a, 2^(s % 15), 0)

\* floor(a / 2^s)
BShr(a, s) ==
    LET q == s \div 15
    IN  IF q >= Len(a) THEN <<>>
        ELSE Trim(BDivRem(SubSeq(a, q + 1, Len(a)), 2^(s % 15)).q)

\* a / 2^s rounded to the nearest integer, ties to even (s >= 1).
BRoundShr(a, s) ==
    LET q    == BShr(a, s)
        rem  == BSub(a, BShl(q, s))
        half == BShl(<<1>>, s - 1)
        odd  == q # <<>> /\ Head(q) % 2 = 1
    IN  IF BLess(half, rem) \/ (rem = half /\ odd) THEN BAdd(q, <<>>, 1) ELSE q

-----------------------------------------------------------------------------
(* IEEE-754 binary64, the float of Python: [neg, m, e] is                  *)
(* (-1)^neg * m * 2^e with 2^52 <= m < 2^53 (m in limbs), or zero.  Every  *)
(* operation is the exact result rounded to nearest, ties to even.  The    *)
(* values of this program stay far from overflow and from the subnormal    *)
(* range, which are not modelled.                                          *)

FZero == [neg |-> FALSE, m |-> <<>>, e |-> 0]

\* The double nearest to (-1)^neg * n * 2^e, n any natural number in limbs.
FNorm(neg, n, e) ==
    LET len == BitLen(n)
    IN  IF len = 0 THEN FZero
        ELSE IF len <= 53
        THEN [neg |-> neg, m |-> BShl(n, 53 - len), e |-> e - (53 - len)]
        ELSE LET m == BRoundShr(n, len - 53)
             IN  IF BitLen(m) = 54
                 THEN [neg |-> neg, m |-> BShr(m, 1), e |-> e + (len - 53) + 1]
                 ELSE [neg |-> neg, m |-> m, e |-> e + (len - 53)]

FNeg(x) == IF x.m = <<>> THEN x ELSE [x EXCEPT !.neg = ~x.neg]

FMul(x, y) == FNorm(x.neg # y.neg, BMul(x.m, y.m), x.e + y.e)

FAdd(x, y) ==
    IF x.m = <<>> THEN y
    ELSE IF y.m = <<>> THEN x
    ELSE LET e == IF x.e < y.e THEN x.e ELSE y.e
             a == BShl(x.m, x.e - e)
             b == BShl(y.m, y.e - e)
         IN  IF x.neg = y.neg THEN FNorm(x.neg, BAdd(a, b, 0), e)
             ELSE IF BLess(a, b) THEN FNorm(y.neg, BSub(b, a), e)
             ELSE FNorm(x.neg, BSub(a, b), e)

FSub(x, y) == FAdd(x, FNeg(y))

\* x >= y
FGe(x, y) == ~FSub(x, y).neg

\* n / 10^k by k divisions by ten: the quotient and whether anything was lost.
RECURSIVE DivTens(_, _, _)
DivTens(n, k, lost) ==
    IF k = 0 THEN [q |-> Trim(n), lost |-> lost]
    ELSE LET d == BDivRem(n, 10)
         IN  DivTens(d.q, k - 1, lost \/ d.r # 0)

\* float() of the decimal text (-1)^neg * n * 10^(-k), n an integer: the
\* nearest double.  The quotient n * 2^s / 10^k is taken with at least four
\* bits more than the mantissa holds, and what the division lost is kept as a
\* last bit, so that the one rounding of FNorm is the rounding of the exact
\* value.
FDec(neg, n, k) ==
    LET s == 56 + 4 * k
        d == DivTens(BShl(BNat(n), s), k, FALSE)
        q == IF d.lost /\ Head(d.q) % 2 = 0
             THEN <<Head(d.q) + 1>> \o Tail(d.q)
             ELSE d.q
    IN  IF n = 0 THEN FZero ELSE FNorm(neg, q, -s)

\* The float literal m * 10^(-k) of the source.
F(m, k) == FDec(m < 0, IF m < 0 THEN -m ELSE m, k)

\* round(x, 2) in hundredths: Python rounds the exact value of the double to
\* two decimal places, ties to even, and returns the double nearest to that
\* decimal.
FRoundCents(x) ==
    LET n   == BMulSmall(x.m, 100, 0)
        mag == IF x.e >= 0 THEN BShl(n, x.e) ELSE BRoundShr(n, -x.e)
    IN  IF x.neg THEN -BInt(mag) ELSE BInt(mag)

-----------------------------------------------------------------------------
(* Strings.  str.lower() and str.replace(" ", "_") on the strings that     *)
(* occur in requests; every other string of the model is lower-case and    *)
(* has no space.                                                           *)

Lower(s) ==
    CASE s = "Metric" -> "metric"
      [] s = "Male" -> "male"
      [] s = "Lightly Active" -> "lightly active"
      [] OTHER -> s

ReplaceSpace(s) == IF s = "lightly active" THEN "lightly_active" ELSE s

-----------------------------------------------------------------------------
(* BEEFormInput: the schema FastAPI validates the form against before it   *)
(* calls the handler.  A form carries weight and height as decimal text;   *)
(* the schema's float fields hold the doubles parsed from it.              *)

RECURSIVE DigInt(_)
DigInt(dig) == IF dig = <<>> THEN 0 ELSE Head(dig) + 10 * DigInt(Tail(dig))

\* float(text)
ParseFloat(d) == FDec(d.neg, DigInt(d.dig), d.exp)

\* The field values of the BEEFormInput built from a form.
Parsed(form) ==
    [unit_system    |-> form.unit_system,
     age            |-> form.age,
     biological_sex |-> form.biological_sex,
     weight         |-> ParseFloat(form.weight),
     height         |-> ParseFloat(form.height),
     activity_level |-> form.activity_level]

UnitLiteral == {"metric", "imperial"}

SexLiteral == {"male", "female", "intersex"}

ActivityLiteral ==
    {"sedentary", "lightly_active", "moderately_active", "very_active", "super_active"}

AgeGe == 1
AgeLe == 150

WeightGe == F(10, 1)

HeightGe == F(10, 1)

ValidInput(data) ==
    /\ data.unit_system \in UnitLiteral
    /\ data.age >= AgeGe
    /\ data.age <= AgeLe
    /\ data.biological_sex \in SexLiteral
    /\ FGe(data.weight, WeightGe)
    /\ FGe(data.height, HeightGe)
    /\ data.activity_level \in ActivityLiteral

-----------------------------------------------------------------------------
(* calculate_bee: the tables and the arithmetic of the handler.            *)

\* Variant of conversion_factors with the pound cut to four significant
\* digits; C8's formula must tell it from the table of the source.
conversion_factors_short ==
    [metric   |-> [weight |-> F(10, 1), height |-> F(10, 1)],
     imperial |-> [weight |-> F(4536, 4), height |-> F(254, 2)]]

conversion_factors ==
    [metric   |-> [weight |-> F(10, 1), height |-> F(10, 1)],
     imperial |-> [weight |-> F(453592, 6), height |-> F(254, 2)]]

activity_factors ==
    [sedentary         |-> F(12, 1),
     lightly_active    |-> F(1375, 3),
     moderately_active |-> F(155, 2),
     very_active       |-> F(1725, 3),
     super_active      |-> F(19, 1)]

\* The float literals of the two Harris-Benedict equations.
HarrisBenedict ==
    [male   |-> [base |-> F(66473, 3), weight |-> F(137516, 4),
                 height |-> F(50033, 4), age |-> F(67550, 4)],
     female |-> [base |-> F(6550955, 4), weight |-> F(95634, 4),
                 height |-> F(18496, 4), age |-> F(46756, 4)]]

\* float(n) of an int
FInt(n) == FNorm(n < 0, BNat(IF n < 0 THEN -n ELSE n), 0)

\* base + (weight * weight_in_kg) + (height * height_in_cm) - (age * data.age)
Equation(c, weight_in_kg, height_in_cm, age) ==
    FSub(FAdd(FAdd(c.base, FMul(c.weight, weight_in_kg)),
              FMul(c.height, height_in_cm)),
         FMul(c.age, FInt(age)))

AgeTermSlip == F(67550, 3)

\* Variant of BeeMale that adds the age term; C5's formula must tell it apart.
BeeMaleAgeAdded(weight_in_kg, height_in_cm, age) ==
    LET c == HarrisBenedict.male
    IN  FAdd(FAdd(FAdd(c.base, FMul(c.weight, weight_in_kg)),
                  FMul(c.height, height_in_cm)),
             FMul(c.age, FInt(age)))

\* Variant of BeeMale with the age coefficient 67.550; C9's formula must tell
\* it apart.
BeeMaleAgeSlip(weight_in_kg, height_in_cm, age) ==
    Equation([HarrisBenedict.male EXCEPT !.age = AgeTermSlip],
             weight_in_kg, height_in_cm, age)

BeeMale(weight_in_kg, height_in_cm, age) ==
    Equation(HarrisBenedict.male, weight_in_kg, height_in_cm, age)

BeeFemale(weight_in_kg, height_in_cm, age) ==
    Equation(HarrisBenedict.female, weight_in_kg, height_in_cm, age)

DefaultFactor == F(12, 1)

\* activity_factors.get(activity_level_key, 1.2)
Multiplier(activity_level) ==
    LET activity_level_key == ReplaceSpace(Lower(activity_level))
    IN  IF activity_level_key \in DOMAIN activity_factors
        THEN activity_factors[activity_level_key]
        ELSE DefaultFactor

\* Variant of TdeeOf with + for *; C6's formula must tell it apart.
TdeeSum(bee, multiplier) == FAdd(bee, multiplier)

TdeeOf(bee, multiplier) == FMul(bee, multiplier)

\* Variant of ToKj with the International Table calorie, 4.1868; C7's formula
\* must tell it apart.
KjPerKcalIT == F(41868, 4)

ToKjIT(kcal) == FMul(kcal, KjPerKcalIT)

KjPerKcal == F(4184, 3)

\* kcal/day to kJ/day
ToKj(kcal) == FMul(kcal, KjPerKcal)

\* round(x, 2) as the response shows it: the double that round returns is the
\* one nearest to a decimal with two places, and the JSON encoder writes the
\* shortest decimal that reads back as that double, which is that decimal.
Round2(x) == Dec(FRoundCents(x), 2)

\* The JSON text of the activity factor: the shortest decimal that reads back
\* as the double, for the doubles the handler can return.
Repr(x) ==
    CASE x = activity_factors.sedentary -> Dec(12, 1)
      [] x = activity_factors.lightly_active -> Dec(1375, 3)
      [] x = activity_factors.moderately_active -> Dec(155, 2)
      [] x = activity_factors.very_active -> Dec(1725, 3)
      [] x = activity_factors.super_active -> Dec(19, 1)

\* Variant of Output that converts the rounded kcal values to kJ; C4's formula
\* must tell it apart.
OutputRoundFirst(bee, bee_kj, tdee, tdee_kj, multiplier) ==
    [bee_kcal        |-> Round2(bee),
     bee_kj          |-> Round2(FMul(ParseFloat(Round2(bee)), KjPerKcal)),
     tdee_kcal       |-> Round2(tdee),
     tdee_kj         |-> Round2(FMul(ParseFloat(Round2(tdee)), KjPerKcal)),
     activity_factor |-> Repr(multiplier)]

\* The rounding of the four results and the BEEFormOutput built from them, as
\* the JSON response carries it.
Output(bee, bee_kj, tdee, tdee_kj, multiplier) ==
    [bee_kcal        |-> Round2(bee),
     bee_kj          |-> Round2(bee_kj),
     tdee_kcal       |-> Round2(tdee),
     tdee_kj         |-> Round2(tdee_kj),
     activity_factor |-> Repr(multiplier)]

-----------------------------------------------------------------------------
(* State.                                                                  *)
(*   req[r]    the form fields of the request in slot r                    *)
(*   pc[r]     where the request is: idle, received (before validation),   *)
(*             then the handler's positions, then done                     *)
(*   local[r]  the handler's local variables for that call                 *)
(*   resp[r]   the response: status 0 while there is none                  *)
(*   health    the number of /health responses sent                        *)

Zero == Dec(0, 0)

NoRequest ==
    [unit_system |-> "", age |-> 0, biological_sex |-> "", weight |-> Zero,
     height |-> Zero, activity_level |-> ""]

NoLocal ==
    [weight_in_kg |-> FZero, height_in_cm |-> FZero, bee |-> FZero,
     multiplier |-> FZero, tdee |-> FZero, bee_kj |-> FZero, tdee_kj |-> FZero]

NoBody ==
    [bee_kcal |-> Zero, bee_kj |-> Zero, tdee_kcal |-> Zero, tdee_kj |-> Zero,
     activity_factor |-> Zero]

NoResponse == [status |-> 0, detail |-> "", body |-> NoBody]

Error(status, detail) == [status |-> status, detail |-> detail, body |-> NoBody]

\* A request arrives in a free slot.
Submit(r, data) ==
    /\ pc[r] = "idle"
    /\ req' = [req EXCEPT ![r] = data]
    /\ pc' = [pc EXCEPT ![r] = "received"]
    /\ UNCHANGED <<local, resp, health>>

\* FastAPI builds BEEFormInput from the form: 422 unless every field validates.
Validate(r) ==
    /\ pc[r] = "received"
    /\ IF ValidInput(Parsed(req[r]))
       THEN /\ pc' = [pc EXCEPT ![r] = "convert"]
            /\ UNCHANGED resp
       ELSE /\ pc' = [pc EXCEPT ![r] = "done"]
            /\ resp' = [resp EXCEPT ![r] = Error(422, "validation error")]
    /\ UNCHANGED <<req, local, health>>

\* Lines 147-156: the unit check and the normalisation to kg and cm.
ConvertUnits(r) ==
    /\ pc[r] = "convert"
    /\ LET data == Parsed(req[r])
           unit == Lower(data.unit_system)
       IN  IF unit \notin DOMAIN conversion_factors
           THEN /\ pc' = [pc EXCEPT ![r] = "done"]
                /\ resp' = [resp EXCEPT ![r] =
                      Error(400, "Invalid unit system. Must be 'metric' or 'imperial'.")]
                /\ UNCHANGED local
           ELSE LET factors == conversion_factors[unit]
                IN  /\ local' = [local EXCEPT
                          ![r].weight_in_kg = FMul(data.weight, factors.weight),
                          ![r].height_in_cm = FMul(data.height, factors.height)]
                    /\ pc' = [pc EXCEPT ![r] = "bee"]
                    /\ UNCHANGED resp
    /\ UNCHANGED <<req, health>>

\* Lines 159-177: the Harris-Benedict equation chosen by biological sex.
ComputeBee(r) ==
    /\ pc[r] = "bee"
    /\ LET data == Parsed(req[r])
           sex  == Lower(data.biological_sex)
           l    == local[r]
       IN  IF sex = "male"
           THEN /\ local' = [local EXCEPT ![r].bee =
                      BeeMale(l.weight_in_kg, l.height_in_cm, data.age)]
                /\ pc' = [pc EXCEPT ![r] = "factor"]
                /\ UNCHANGED resp
           ELSE IF sex \in {"female", "intersex"}
           THEN /\ local' = [local EXCEPT ![r].bee =
                      BeeFemale(l.weight_in_kg, l.height_in_cm, data.age)]
                /\ pc' = [pc EXCEPT ![r] = "factor"]
                /\ UNCHANGED resp
           ELSE /\ pc' = [pc EXCEPT ![r] = "done"]
                /\ resp' = [resp EXCEPT ![r] =
                      Error(400, "Invalid biological sex. Must be 'male', 'female', or 'intersex'.")]
                /\ UNCHANGED local
    /\ UNCHANGED <<req, health>>

\* Variant of ActivityFactor that keeps the multiplier in one module-level
\* variable, which every call in flight then reads; C10's formula must tell it
\* apart.
ActivityFactorShared(r) ==
    /\ pc[r] = "factor"
    /\ local' = [s \in Slots |->
                    [local[s] EXCEPT !.multiplier = Multiplier(Parsed(req[r]).activity_level)]]
    /\ pc' = [pc EXCEPT ![r] = "tdee"]
    /\ UNCHANGED <<req, resp, health>>

\* Lines 180-190: the activity factor.
ActivityFactor(r) ==
    /\ pc[r] = "factor"
    /\ local' = [local EXCEPT ![r].multiplier = Multiplier(Parsed(req[r]).activity_level)]
    /\ pc' = [pc EXCEPT ![r] = "tdee"]
    /\ UNCHANGED <<req, resp, health>>

\* Lines 193-197: TDEE and the two conversions to kJ, from the unrounded values.
ComputeTdee(r) ==
    /\ pc[r] = "tdee"
    /\ LET l    == local[r]
           tdee == TdeeOf(l.bee, l.multiplier)
       IN  local' = [local EXCEPT ![r].tdee = tdee,
                                  ![r].bee_kj = ToKj(l.bee),
                                  ![r].tdee_kj = ToKj(tdee)]
    /\ pc' = [pc EXCEPT ![r] = "round"]
    /\ UNCHANGED <<req, resp, health>>

\* Lines 200-211: the rounding and the response.
RoundReturn(r) ==
    /\ pc[r] = "round"
    /\ LET l == local[r]
       IN  resp' = [resp EXCEPT ![r] =
               [status |-> 200, detail |-> "",
                body |-> Output(l.bee, l.bee_kj, l.tdee, l.tdee_kj, l.multiplier)]]
    /\ pc' = [pc EXCEPT ![r] = "done"]
    /\ UNCHANGED <<req, local, health>>

\* GET /health
HealthCheck ==
    /\ health < MaxHealth
    /\ health' = health + 1
    /\ UNCHANGED <<req, pc, local, resp>>

Handle(r) ==
    \/ Validate(r)
    \/ ConvertUnits(r)
    \/ ComputeBee(r)
    \/ ActivityFactor(r)
    \/ ComputeTdee(r)
    \/ RoundReturn(r)

-----------------------------------------------------------------------------
(* Requests.  Every form carries all six fields (the default of            *)
(* unit_system, "metric", is sent explicitly) and age as an integer.       *)

Form(u, a, s, w, h, l) ==
    [unit_system |-> u, age |-> a, biological_sex |-> s, weight |-> w,
     height |-> h, activity_level |-> l]

UnitValues == UnitLiteral \cup {"unknown", "Metric"}

SexValues == SexLiteral \cup {"other", "Male"}

ActivityValues == ActivityLiteral \cup {"unknown", "Lightly Active"}

\* Every combination of the three string fields, numbers of the documented example.
EnumProbes ==
    {Form(u, 25, s, Dec(705, 1), Dec(175, 0), l) :
        u \in UnitValues, s \in SexValues, l \in ActivityValues}

\* The numeric fields on both sides of each bound of the schema.
RangeProbes ==
    {Form(u, a, s, w, h, "sedentary") :
        u \in UnitLiteral, s \in {"male", "female"},
        a \in {-1, 0, 1, 150, 151},
        w \in {Dec(-1, 0), Dec(0, 0), Dec(5, 1), Dec(999, 3), Dec(1, 0), Dec(70, 0)},
        h \in {Dec(0, 0), Dec(5, 1), Dec(1, 0), Dec(175, 0)}}

\* Accepted requests: the smallest, boundary, ordinary and very large bodies in
\* both unit systems.
Grid ==
    {Form(u, a, s, w, h, l) :
        u \in UnitLiteral, s \in SexLiteral, l \in ActivityLiteral,
        a \in {1, 25, 120, 150},
        w \in {Dec(1, 0), Dec(30, 0), Dec(6614, 2), Dec(705, 1), Dec(154324, 3),
                Dec(1000, 0)},
        h \in {Dec(1, 0), Dec(3938, 2), Dec(100, 0), Dec(6890, 2), Dec(175, 0),
                Dec(1000, 0)}}

Inputs == EnumProbes \cup RangeProbes \cup Grid

\* 70 kg, 175 cm and the same body in pounds and inches, as the spec gives it.
MetricBody(a, s, l) == Form("metric", a, s, Dec(70, 0), Dec(175, 0), l)

ImperialBody(a, s, l) == Form("imperial", a, s, Dec(154324, 3), Dec(6890, 2), l)

\* The requests of the interleaving specification.
ConcInputs ==
    {Form("metric", 25, "male", Dec(705, 1), Dec(175, 0), "moderately_active"),
     Form("imperial", 40, "intersex", Dec(154324, 3), Dec(6890, 2), "super_active"),
     Form("unknown", 25, "male", Dec(705, 1), Dec(175, 0), "sedentary"),
     Form("metric", 25, "female", Dec(5, 1), Dec(175, 0), "sedentary")}

-----------------------------------------------------------------------------
(* Specifications.                                                         *)

Idle ==
    /\ req = [r \in Slots |-> NoRequest]
    /\ pc = [r \in Slots |-> "idle"]
    /\ local = [r \in Slots |-> NoLocal]
    /\ resp = [r \in Slots |-> NoResponse]
    /\ health = 0

\* One request, any of Inputs, handled to its response.
Init ==
    \E data \in Inputs :
        /\ req = [r \in Slots |-> IF r = 1 THEN data ELSE NoRequest]
        /\ pc = [r \in Slots |-> IF r = 1 THEN "received" ELSE "idle"]
        /\ local = [r \in Slots |-> NoLocal]
        /\ resp = [r \in Slots |-> NoResponse]
        /\ health = 0

Next == \E r \in Slots : Handle(r)

Spec == Init /\ [][Next]_vars

\* A client sends a body in metric units (slot 1) and, once it has the
\* response, the same body in imperial units (slot 2).
PairInit ==
    \E a \in AgeGe..AgeLe, s \in SexLiteral, l \in ActivityLiteral :
        /\ req = [r \in Slots |-> IF r = 1 THEN MetricBody(a, s, l) ELSE NoRequest]
        /\ pc = [r \in Slots |-> IF r = 1 THEN "received" ELSE "idle"]
        /\ local = [r \in Slots |-> NoLocal]
        /\ resp = [r \in Slots |-> NoResponse]
        /\ health = 0

SubmitImperial ==
    /\ pc[1] = "done"
    /\ Submit(2, ImperialBody(req[1].age, req[1].biological_sex, req[1].activity_level))

PairNext ==
    \/ SubmitImperial
    \/ \E r \in Slots : Handle(r)

PairSpec == PairInit /\ [][PairNext]_vars

\* The server: requests arrive in free slots and are handled concurrently (the
\* handler is a plain def, which FastAPI runs in a thread pool), with /health
\* calls in between.
ConcInit == Idle

ConcNext ==
    \/ \E r \in Slots, data \in ConcInputs : Submit(r, data)
    \/ \E r \in Slots : Handle(r)
    \/ HealthCheck

ConcSpec == ConcInit /\ [][ConcNext]_vars

-----------------------------------------------------------------------------
(* Properties.                                                             *)

(* Exact arithmetic on decimals, for the properties.                      *)

RECURSIVE AddDig(_, _, _)
AddDig(a, b, c) ==
    IF a = <<>> /\ b = <<>> THEN NatDig(c)
    ELSE LET x == IF a = <<>> THEN 0 ELSE Head(a)
             y == IF b = <<>> THEN 0 ELSE Head(b)
             t == x + y + c
         IN  <<t % 10>> \o AddDig(IF a = <<>> THEN a ELSE Tail(a),
                                  IF b = <<>> THEN b ELSE Tail(b),
                                  t \div 10)

\* a - b - c for a >= b + c.
RECURSIVE SubDig(_, _, _)
SubDig(a, b, c) ==
    IF a = <<>> THEN <<>>
    ELSE LET y == IF b = <<>> THEN 0 ELSE Head(b)
             t == Head(a) - y - c
         IN  <<(t + 10) % 10>> \o SubDig(Tail(a),
                                         IF b = <<>> THEN b ELSE Tail(b),
                                         IF t < 0 THEN 1 ELSE 0)

RECURSIVE MulSmall(_, _, _)
MulSmall(a, k, c) ==
    IF a = <<>> THEN NatDig(c)
    ELSE LET t == Head(a) * k + c
         IN  <<t % 10>> \o MulSmall(Tail(a), k, t \div 10)

RECURSIVE MulDig(_, _)
MulDig(a, b) ==
    IF b = <<>> THEN <<>>
    ELSE AddDig(MulSmall(a, Head(b), 0), <<0>> \o MulDig(a, Tail(b)), 0)

\* a < b, for trimmed a and b.
RECURSIVE LessDig(_, _)
LessDig(a, b) ==
    IF Len(a) # Len(b) THEN Len(a) < Len(b)
    ELSE IF a = <<>> THEN FALSE
    ELSE IF a[Len(a)] # b[Len(b)] THEN a[Len(a)] < b[Len(b)]
    ELSE LessDig(SubSeq(a, 1, Len(a) - 1), SubSeq(b, 1, Len(b) - 1))

\* The digits of |x| in units of 10^(-e), for e >= x.exp.
Scaled(x, e) == IF x.dig = <<>> THEN <<>> ELSE Zeros(e - x.exp) \o x.dig

DNeg(x) == Canon(~x.neg, x.dig, x.exp)

DAbs(x) == Canon(FALSE, x.dig, x.exp)

DAdd(x, y) ==
    LET e == IF x.exp > y.exp THEN x.exp ELSE y.exp
        a == Scaled(x, e)
        b == Scaled(y, e)
    IN  IF x.neg = y.neg THEN Canon(x.neg, AddDig(a, b, 0), e)
        ELSE IF LessDig(a, b) THEN Canon(y.neg, SubDig(b, a, 0), e)
        ELSE Canon(x.neg, SubDig(a, b, 0), e)

DSub(x, y) == DAdd(x, DNeg(y))

DMul(x, y) == Canon(x.neg # y.neg, MulDig(x.dig, y.dig), x.exp + y.exp)

DLess(x, y) ==
    LET d == DSub(x, y) IN d.neg

DLeq(x, y) == ~DLess(y, x)

\* Python's round(x, n) for n >= 0: to n decimal places, ties to even.
DRound(x, n) ==
    IF x.exp <= n THEN x
    ELSE LET k     == x.exp - n
             full  == x.dig \o Zeros(IF Len(x.dig) < k THEN k - Len(x.dig) ELSE 0)
             low   == SubSeq(full, 1, k)
             q     == SubSeq(full, k + 1, Len(full))
             first == low[k]
             rest  == Trim(SubSeq(low, 1, k - 1))
             odd   == q # <<>> /\ Head(q) % 2 = 1
             up    == \/ first > 5
                      \/ first = 5 /\ rest # <<>>
                      \/ first = 5 /\ rest = <<>> /\ odd
         IN  Canon(x.neg, IF up THEN AddDig(q, <<>>, 1) ELSE q, n)

Done(r) == pc[r] = "done"

Accepted(r) == Done(r) /\ resp[r].status = 200

Positive(x) == DLess(Zero, x)

\* |x - y| <= tol
Within(x, y, tol) == DLeq(DAbs(DSub(x, y)), tol)

Cent == Dec(1, 2)

\* The numeric fields as the spec's data model states them.
NumbersInRange(f) ==
    /\ f.age \in 1..150
    /\ Positive(f.weight)
    /\ Positive(f.height)

\* C1: a request whose unit_system or biological_sex is outside its set, all
\* other fields valid, is answered with HTTP 400 and a message.
C1_InvalidEnumIs400 ==
    \A r \in Slots :
        ( /\ Done(r)
          /\ \/ req[r].unit_system \notin {"metric", "imperial"}
             \/ req[r].biological_sex \notin {"male", "female", "intersex"}
          /\ NumbersInRange(req[r])
          /\ req[r].activity_level \in ActivityLiteral )
        => (resp[r].status = 400 /\ resp[r].detail # "")

\* C2: a request whose activity_level is none of the five tiers, all other
\* fields valid, succeeds with activity_factor 1.2 and tdee = bee x 1.2.
C2_UnknownActivityDefaults ==
    \A r \in Slots :
        ( /\ Done(r)
          /\ req[r].activity_level \notin ActivityLiteral
          /\ req[r].unit_system \in {"metric", "imperial"}
          /\ req[r].biological_sex \in {"male", "female", "intersex"}
          /\ NumbersInRange(req[r]) )
        => /\ resp[r].status = 200
           /\ resp[r].body.activity_factor = Dec(12, 1)
           /\ resp[r].body.tdee_kcal = Round2(FMul(local[r].bee, DefaultFactor))

\* C3: with the three string fields inside their sets, a request is accepted
\* exactly when age is in 1..150, weight > 0 and height > 0, and is otherwise
\* rejected with HTTP 422 and no result record.
C3_AcceptedIffPositive ==
    \A r \in Slots :
        ( /\ Done(r)
          /\ req[r].unit_system \in {"metric", "imperial"}
          /\ req[r].biological_sex \in {"male", "female", "intersex"}
          /\ req[r].activity_level \in ActivityLiteral )
        => /\ (resp[r].status = 200) <=> NumbersInRange(req[r])
           /\ resp[r].status # 200 => (resp[r].status = 422 /\ resp[r].body = NoBody)

\* The reference computation, as C4 states it, in the floats of Python.
RefPound == F(453592, 6)

RefInch == F(254, 2)

RefMale == <<F(66473, 3), F(137516, 4), F(50033, 4), F(67550, 4)>>

RefFemale == <<F(6550955, 4), F(95634, 4), F(18496, 4), F(46756, 4)>>

RefKj == F(4184, 3)

RefWeightKg(f) ==
    IF f.unit_system = "imperial"
    THEN FMul(ParseFloat(f.weight), RefPound)
    ELSE ParseFloat(f.weight)

RefHeightCm(f) ==
    IF f.unit_system = "imperial"
    THEN FMul(ParseFloat(f.height), RefInch)
    ELSE ParseFloat(f.height)

RefBee(f) ==
    LET k == IF f.biological_sex = "male" THEN RefMale ELSE RefFemale
    IN  FSub(FAdd(FAdd(k[1], FMul(k[2], RefWeightKg(f))),
                  FMul(k[3], RefHeightCm(f))),
             FMul(k[4], FInt(f.age)))

RefFactor(f) ==
    CASE f.activity_level = "sedentary" -> Dec(12, 1)
      [] f.activity_level = "lightly_active" -> Dec(1375, 3)
      [] f.activity_level = "moderately_active" -> Dec(155, 2)
      [] f.activity_level = "very_active" -> Dec(1725, 3)
      [] f.activity_level = "super_active" -> Dec(19, 1)

RefResult(f) ==
    LET bee  == RefBee(f)
        tdee == FMul(bee, ParseFloat(RefFactor(f)))
    IN  [bee_kcal        |-> Round2(bee),
         bee_kj          |-> Round2(FMul(bee, RefKj)),
         tdee_kcal       |-> Round2(tdee),
         tdee_kj         |-> Round2(FMul(tdee, RefKj)),
         activity_factor |-> RefFactor(f)]

\* C4: the record returned for an accepted request is the reference
\* computation: the unit conversion, the formula of the sex, the factor of the
\* activity level, tdee = bee x factor, kJ from the unrounded kcal values,
\* and the rounding to 2 decimal places last.
C4_MatchesReference ==
    \A r \in Slots : Accepted(r) => resp[r].body = RefResult(req[r])

C4_Witness ==
    \E r \in Slots :
        /\ Accepted(r)
        /\ req[r].unit_system = "imperial"
        /\ req[r].biological_sex = "intersex"
        /\ req[r].activity_level = "very_active"
        /\ resp[r].body.tdee_kj # DRound(DMul(resp[r].body.tdee_kcal, Dec(4184, 3)), 2)

Scenario == Form("metric", 25, "male", Dec(705, 1), Dec(175, 0), "moderately_active")

\* C5 as stated: the scenario returns activity_factor 1.55, bee_kcal within
\* 0.01 of 1734.27 and tdee_kcal within 0.01 of 2688.11.
C5_ScenarioAsStated ==
    \A r \in Slots :
        (Done(r) /\ req[r] = Scenario)
        => /\ resp[r].status = 200
           /\ resp[r].body.activity_factor = Dec(155, 2)
           /\ Within(resp[r].body.bee_kcal, Dec(173427, 2), Cent)
           /\ Within(resp[r].body.tdee_kcal, Dec(268811, 2), Cent)

\* C5 amended: the scenario returns activity_factor 1.55, bee_kcal within 0.01
\* of 1742.66 and tdee_kcal within 0.01 of 2701.13.
C5_Scenario ==
    \A r \in Slots :
        (Done(r) /\ req[r] = Scenario)
        => /\ resp[r].status = 200
           /\ resp[r].body.activity_factor = Dec(155, 2)
           /\ Within(resp[r].body.bee_kcal, Dec(174266, 2), Cent)
           /\ Within(resp[r].body.tdee_kcal, Dec(270113, 2), Cent)

C5_Witness == \E r \in Slots : Accepted(r) /\ req[r] = Scenario

\* Weight and height of at most 1000 in their unit.
Ordinary(f) == DLeq(f.weight, Dec(1000, 0)) /\ DLeq(f.height, Dec(1000, 0))

\* |tdee_kcal - bee_kcal x activity_factor| of a result record.
TdeeGap(b) == DAbs(DSub(b.tdee_kcal, DMul(b.bee_kcal, b.activity_factor)))

\* C6 as stated: for every accepted request,
\* |tdee_kcal - bee_kcal x activity_factor| <= 0.01.
C6_TdeeWithinCent ==
    \A r \in Slots : Accepted(r) => DLeq(TdeeGap(resp[r].body), Cent)

\* C6 amended: for every accepted request with weight and height of at most
\* 1000, |tdee_kcal - bee_kcal x activity_factor| <= 0.015.
C6_TdeeWithinBound ==
    \A r \in Slots :
        (Accepted(r) /\ Ordinary(req[r])) => DLeq(TdeeGap(resp[r].body), Dec(15, 3))

C6_Witness ==
    \E r \in Slots : Accepted(r) /\ DLess(Cent, TdeeGap(resp[r].body))

\* |kj - kcal x 4.184|
KjGap(kj, kcal) == DAbs(DSub(kj, DMul(kcal, Dec(4184, 3))))

\* C7 as stated: for every accepted request, |bee_kj - bee_kcal x 4.184| <= 0.01
\* and |tdee_kj - tdee_kcal x 4.184| <= 0.01.
C7_KjWithinCent ==
    \A r \in Slots :
        Accepted(r)
        => /\ DLeq(KjGap(resp[r].body.bee_kj, resp[r].body.bee_kcal), Cent)
           /\ DLeq(KjGap(resp[r].body.tdee_kj, resp[r].body.tdee_kcal), Cent)

\* C7 amended: for every accepted request with weight and height of at most
\* 1000, |bee_kj - bee_kcal x 4.184| <= 0.03 and
\* |tdee_kj - tdee_kcal x 4.184| <= 0.03.
C7_KjWithinBound ==
    \A r \in Slots :
        (Accepted(r) /\ Ordinary(req[r]))
        => /\ DLeq(KjGap(resp[r].body.bee_kj, resp[r].body.bee_kcal), Dec(3, 2))
           /\ DLeq(KjGap(resp[r].body.tdee_kj, resp[r].body.tdee_kcal), Dec(3, 2))

C7_Witness ==
    \E r \in Slots :
        /\ Accepted(r)
        /\ DLess(Cent, KjGap(resp[r].body.bee_kj, resp[r].body.bee_kcal))
        /\ DLess(Cent, KjGap(resp[r].body.tdee_kj, resp[r].body.tdee_kcal))

\* Slot 1 holds the metric body, slot 2 the same body in imperial units, and
\* both have their result.
PairAnswered ==
    /\ Accepted(1)
    /\ Accepted(2)
    /\ req[1] = MetricBody(req[1].age, req[1].biological_sex, req[1].activity_level)
    /\ req[2] = ImperialBody(req[1].age, req[1].biological_sex, req[1].activity_level)

\* C8 as stated: for every age in 1..150, every sex and every activity level,
\* the bee_kcal of the metric body (70 kg, 175 cm) and of the imperial body
\* (154.324 lb, 68.90 in) differ by at most 0.01.
C8_SameBeeWithinCent ==
    PairAnswered => Within(resp[1].body.bee_kcal, resp[2].body.bee_kcal, Cent)

\* C8 amended: the two bee_kcal values differ by at most 0.03.
C8_SameBeeWithinBound ==
    PairAnswered => Within(resp[1].body.bee_kcal, resp[2].body.bee_kcal, Dec(3, 2))

C8_Witness ==
    /\ PairAnswered
    /\ req[1].age = 150
    /\ req[1].biological_sex = "male"
    /\ DSub(resp[2].body.bee_kcal, resp[1].body.bee_kcal) = Dec(3, 2)

\* Weight in kg and height in cm of a form, as exact numbers.
KgOf(f) ==
    IF f.unit_system = "imperial" THEN DMul(f.weight, Dec(453592, 6)) ELSE f.weight

CmOf(f) ==
    IF f.unit_system = "imperial" THEN DMul(f.height, Dec(254, 2)) ELSE f.height

\* The realistic physiological range of C9.
Realistic(f) ==
    /\ f.age \in 1..120
    /\ DLeq(Dec(30, 0), KgOf(f))
    /\ DLeq(Dec(100, 0), CmOf(f))

\* C9: for every accepted request in the realistic range (age 1..120, at least
\* 30 kg and 100 cm after normalisation), bee_kcal and tdee_kcal are strictly
\* positive and tdee_kcal >= bee_kcal.
C9_PositiveEnergy ==
    \A r \in Slots :
        (Accepted(r) /\ Realistic(req[r]))
        => /\ Positive(resp[r].body.bee_kcal)
           /\ Positive(resp[r].body.tdee_kcal)
           /\ DLeq(resp[r].body.bee_kcal, resp[r].body.tdee_kcal)

C9_Witness ==
    \E r \in Slots :
        /\ Accepted(r)
        /\ req[r].age = 120
        /\ req[r].biological_sex = "male"
        /\ KgOf(req[r]) = Dec(30, 0)
        /\ CmOf(req[r]) = Dec(100, 0)
        /\ resp[r].body.bee_kcal = Dec(16875, 2)

\* Two answered requests with the same fields have the same response.
SameFieldsSameResponse ==
    \A r1, r2 \in Slots :
        (Done(r1) /\ Done(r2) /\ req[r1] = req[r2]) => resp[r1] = resp[r2]

\* A step that is not a step of request r (its position stays) leaves the
\* fields, the locals and the response of r as they are.
OthersUntouched ==
    \A r \in Slots :
        pc'[r] = pc[r] => (req'[r] = req[r] /\ local'[r] = local[r] /\ resp'[r] = resp[r])

\* C10: under any interleaving of requests (rejected ones and /health calls
\* included), two requests with identical fields receive identical responses,
\* and no step of one request reads or writes what belongs to another.
C10_RequestsIndependent == []SameFieldsSameResponse /\ [][OthersUntouched]_vars

C10_Witness ==
    /\ health > 0
    /\ \E r1, r2 \in Slots :
          /\ r1 # r2
          /\ Accepted(r1)
          /\ Accepted(r2)
          /\ req[r1] = req[r2]

====
